---- MODULE Spec2Model ----
(***************************************************************************)
(* Model of the "start" command of the Sana node (cmd/ant/cmd/start.go):   *)
(* credential provisioning (configureSigner, waitForClef), configuration   *)
(* validation, node construction and the interrupt-driven shutdown of the  *)
(* program start/stop pair in foreground and OS-service mode.              *)
(***************************************************************************)
EXTENDS Integers, Sequences, FiniteSets, TLC

(***************************************************************************)
(* Bounds of the model.                                                    *)
(***************************************************************************)
\* number of interrupt signals the environment delivers in one run
MaxSignals == 2
\* largest retry budget handed to waitForClef in WaitSpec
MaxRetriesBound == 8
\* largest value of the block-time option in NetSpec
MaxBlockTime == 3
\* the clock of the shutdown context advances in steps of this many seconds
TickStep == 15

(***************************************************************************)
(* Program constants.                                                      *)
(***************************************************************************)
\* start.go:347  waitForClef(logger, 5, endpoint)
ClefRetries == 5
\* start.go:293  time.Sleep(5 * time.Second)
ClefBackoff == 5
\* start.go:209  context.WithTimeout(context.Background(), 15*time.Second)
ShutdownDeadline == 15
\* start.go:192  make(chan os.Signal, 1)
ChannelCapacity == 1
\* start.go:431  time.Second, a time.Duration counted in nanoseconds
Second == 1000000000

VARIABLES
    cfg,               \* configuration values and the run mode, fixed for the run
    pc,                \* position of the goroutine running RunE
    result,            \* what RunE returned: "none" while running, "nil", or an error
    password,          \* configureSigner's local variable password
    passwordResolved,  \* TRUE once lines 309-336 have assigned password
    calls,             \* external calls made so far, in order, with their outcome
    log,               \* log lines emitted so far, in order
    maxRetries,        \* waitForClef's parameter maxRetries (it is decremented)
    clefArg,           \* the value waitForClef was called with
    interruptChannel,  \* the buffered channel of start.go:192
    signalsSent,       \* signals the OS delivered to the process after Notify
    startPc,           \* the goroutine "go p.start()" of service mode
    shut,              \* the goroutine spawned by stop (start.go:206-215)
    shutErr,           \* what a.Shutdown returned
    elapsed,           \* time units since the shutdown context was created
    stopWake,          \* the case of stop's select that fired
    slept,             \* time units waitForClef has spent in time.Sleep
    netIn,             \* network id, block time and boot nodes options of the run
    networkConfig      \* RunE's local variable networkConfig

vars == <<cfg, pc, result, password, passwordResolved, calls, log, maxRetries,
          clefArg, interruptChannel, signalsSent, startPc, shut, shutErr,
          elapsed, stopWake, slept, netIn, networkConfig>>

provVars == <<password, passwordResolved, maxRetries, clefArg, slept>>
netVars == <<netIn, networkConfig>>
shutVars == <<interruptChannel, signalsSent, startPc, shut, shutErr, elapsed, stopWake>>

(***************************************************************************)
(* Inputs.  Strings that are inspected character by character (passwords,  *)
(* file contents) are sequences of one-character strings.                  *)
(***************************************************************************)
NL == "\n"
ExplicitPasswords == {<<>>, <<"p">>}
PasswordFiles == {"", "pwfile"}
DataDirs == {"", "datadir"}
FileContents == {<<"p">>, <<"p", NL>>, <<NL, "p">>, <<"p", NL, NL>>,
                 <<"p", NL, "q", NL>>}
Typed == {<<"p">>, <<"q">>}

Configs == [dataDir : DataDirs, password : ExplicitPasswords,
            passwordFile : PasswordFiles,
            clefEnable : BOOLEAN, bootNode : BOOLEAN, fullNode : BOOLEAN,
            isWindowsService : BOOLEAN]

(***************************************************************************)
(* History helpers.                                                        *)
(***************************************************************************)
Call(op, name, data, ok) == [op |-> op, name |-> name, data |-> data, ok |-> ok]

CallIdx(op) == {i \in 1..Len(calls) : calls[i].op = op}
NumCalls(op) == Cardinality(CallIdx(op))
IdxOf(c) == {i \in 1..Len(calls) : calls[i] = c}
LogIdx(line) == {i \in 1..Len(log) : log[i] = line}

(***************************************************************************)
(* bytes.Trim(b, "\n"): all leading and all trailing bytes of the cutset   *)
(* are removed.                                                            *)
(***************************************************************************)
RECURSIVE TrimLeft(_)
TrimLeft(b) == IF b # <<>> /\ Head(b) = NL THEN TrimLeft(Tail(b)) ELSE b

RECURSIVE TrimRight(_)
TrimRight(b) ==
    IF b # <<>> /\ b[Len(b)] = NL THEN TrimRight(SubSeq(b, 1, Len(b) - 1)) ELSE b

\* Trim as bytes.TrimRight would do it
Trim_TrailingOnly(b) == TrimRight(b)

Trim(b) == TrimRight(TrimLeft(b))

(***************************************************************************)
(* terminalPromptCreatePassword: asks for the new password twice and fails *)
(* when the two entries differ.                                            *)
(***************************************************************************)
terminalPromptCreatePassword(p1, p2) ==
    IF p1 = p2 THEN [ok |-> TRUE, pw |-> p1] ELSE [ok |-> FALSE, pw |-> <<>>]

(***************************************************************************)
(* A uint64 is kept as two limbs, its value being hi * Second + lo with    *)
(* lo < Second, so that products with time.Second can be written down.     *)
(* Within the block times of the model no product reaches 2^64.            *)
(***************************************************************************)
Uint64(n) == [hi |-> n \div Second, lo |-> n % Second]

\* uint64(time.Duration(n) * time.Second), start.go:431
DurationSeconds(n) == [hi |-> n, lo |-> 0]

(***************************************************************************)
(* The options read at start.go:123-135: their values, and for the boot    *)
(* nodes and the block time whether config.IsSet reports them as set.      *)
(***************************************************************************)
MainnetBootNodes == <<"/dnsaddr/mainnet.ethsana.org">>
TestnetBootNodes == <<"/dnsaddr/testnet.ethsana.org">>

NetworkIDs == {0, 1, 5, 7, 100, 31337}
BlockTimes == 0..MaxBlockTime
BootnodeLists == {<<>>, <<"/dnsaddr/custom">>}

NetInputs == [networkID : NetworkIDs, blockTime : BlockTimes,
              bootnodes : BootnodeLists, bootnodesSet : BOOLEAN,
              blockTimeSet : BOOLEAN]

\* the options of the runs of Spec: an unlisted network with both options set
MainNetInputs ==
    {[networkID |-> 7, blockTime |-> 3, bootnodes |-> <<>>,
      bootnodesSet |-> TRUE, blockTimeSet |-> TRUE]}

\* the zero value of the struct networkConfig, start.go:423-427
ZeroNetworkConfig == [bootNodes |-> <<>>, blockTime |-> Uint64(0), chainID |-> 0]

\* getConfigByNetworkID with network 1 given the chain id 1
getConfigByNetworkID_ChainOfNetwork(networkID, defaultBlockTime) ==
    LET config == [ZeroNetworkConfig EXCEPT !.blockTime = DurationSeconds(defaultBlockTime)]
    IN  CASE networkID = 1 ->
               [config EXCEPT !.bootNodes = MainnetBootNodes, !.chainID = 1]
          [] networkID = 5 ->
               [config EXCEPT !.bootNodes = TestnetBootNodes, !.chainID = 5]
          [] networkID = 100 ->
               [config EXCEPT !.bootNodes = MainnetBootNodes, !.chainID = 100]
          [] networkID = 31337 ->
               [config EXCEPT !.bootNodes = <<>>, !.chainID = 31337]
          [] OTHER ->
               [config EXCEPT !.chainID = -1]

(***************************************************************************)
(* getConfigByNetworkID, start.go:429-454.  A nil slice and an empty slice *)
(* are both the empty sequence.                                            *)
(***************************************************************************)
getConfigByNetworkID(networkID, defaultBlockTime) ==
    LET config == [ZeroNetworkConfig EXCEPT !.blockTime = DurationSeconds(defaultBlockTime)]
    IN  CASE networkID = 1 ->
               [config EXCEPT !.bootNodes = MainnetBootNodes, !.chainID = 100]
          [] networkID = 5 ->
               [config EXCEPT !.bootNodes = TestnetBootNodes, !.chainID = 5]
          [] networkID = 100 ->
               [config EXCEPT !.bootNodes = MainnetBootNodes, !.chainID = 100]
          [] networkID = 31337 ->
               [config EXCEPT !.bootNodes = <<>>, !.chainID = 31337]
          [] OTHER ->
               [config EXCEPT !.chainID = -1]

(***************************************************************************)
(* Init: the state when RunE is entered.                                   *)
(***************************************************************************)
Init ==
    /\ cfg \in Configs
    /\ pc = "init"
    /\ result = "none"
    /\ password = <<>>
    /\ passwordResolved = FALSE
    /\ calls = <<>>
    /\ log = <<>>
    /\ maxRetries = 0
    /\ clefArg = 0
    /\ interruptChannel = <<>>
    /\ signalsSent = 0
    /\ startPc = "idle"
    /\ shut = "idle"
    /\ shutErr = "nil"
    /\ elapsed = 0
    /\ stopWake = "none"
    /\ slept = 0
    /\ netIn \in MainNetInputs
    /\ networkConfig = ZeroNetworkConfig

\* RunE returns err (possibly through configureSigner returning (nil, err))
Return(err) == pc' = "returned" /\ result' = err

(***************************************************************************)
(* RunE, lines 49-107: arguments, logger, service detection, resolver      *)
(* endpoints.  With arguments the command prints its help and returns what *)
(* cmd.Help returns, which is nil; an error of the logger, of the service  *)
(* detection or of the resolver endpoints ends the command as well.  The   *)
(* goroutine of line 59 (startTimeBomb) is started here; its body is not   *)
(* part of this file and it shares no variable of RunE but the logger.     *)
(***************************************************************************)
Prelude ==
    /\ pc = "init"
    /\ \E outcome \in {"help", "err", "ok"} :
         CASE outcome = "help" -> Return("nil")
           [] outcome = "err" -> Return("preludeErr")
           [] outcome = "ok" -> pc' = "keystore" /\ result' = result
    /\ UNCHANGED <<cfg, calls, log>>
    /\ UNCHANGED provVars
    /\ UNCHANGED netVars
    /\ UNCHANGED shutVars

(***************************************************************************)
(* configureSigner, lines 298-304: the keystore in memory, with a warning, *)
(* when no data directory is configured, the file keystore otherwise.      *)
(***************************************************************************)
SelectKeystore ==
    /\ pc = "keystore"
    /\ log' = IF cfg.dataDir = ""
                THEN Append(log, "data directory not provided, keys are not persisted")
                ELSE log
    /\ pc' = "password"
    /\ UNCHANGED <<cfg, result, calls>>
    /\ UNCHANGED provVars
    /\ UNCHANGED netVars
    /\ UNCHANGED shutVars

(***************************************************************************)
(* configureSigner, lines 311-316: the password file.                      *)
(***************************************************************************)
PasswordFromFile ==
    \/ /\ calls' = Append(calls, Call("ReadFile", cfg.passwordFile, <<>>, FALSE))
       /\ Return("readFileErr")
       /\ UNCHANGED <<password, passwordResolved>>
    \/ \E b \in FileContents :
         /\ calls' = Append(calls, Call("ReadFile", cfg.passwordFile, b, TRUE))
         /\ password' = Trim(b)
         /\ passwordResolved' = TRUE
         /\ pc' = "signer" /\ result' = result

\* PasswordFromPrompt with the error of the confirmation prompt dropped
PasswordFromPrompt_IgnoresMismatch ==
    \/ /\ calls' = Append(calls, Call("Exists", "libp2p", <<>>, FALSE))
       /\ Return("existsErr")
       /\ UNCHANGED <<password, passwordResolved>>
    \/ /\ calls' = calls \o <<Call("Exists", "libp2p", <<"y">>, TRUE),
                              Call("Prompt", "Password", <<>>, FALSE)>>
       /\ Return("promptErr")
       /\ UNCHANGED <<password, passwordResolved>>
    \/ \E p \in Typed :
         /\ calls' = calls \o <<Call("Exists", "libp2p", <<"y">>, TRUE),
                                Call("Prompt", "Password", p, TRUE)>>
         /\ password' = p
         /\ passwordResolved' = TRUE
         /\ pc' = "signer" /\ result' = result
    \/ \E p1 \in Typed, p2 \in Typed :
         LET r == terminalPromptCreatePassword(p1, p2) IN
         /\ calls' = calls \o <<Call("Exists", "libp2p", <<"n">>, TRUE),
                                Call("PromptCreate", "Password", r.pw, r.ok)>>
         /\ password' = r.pw
         /\ passwordResolved' = TRUE
         /\ pc' = "signer" /\ result' = result

(***************************************************************************)
(* configureSigner, lines 317-336: keystore.Exists("libp2p"), then the     *)
(* prompt for the existing password or for a new one with confirmation.    *)
(* The data of an Exists call is its answer.                               *)
(***************************************************************************)
PasswordFromPrompt ==
    \/ /\ calls' = Append(calls, Call("Exists", "libp2p", <<>>, FALSE))
       /\ Return("existsErr")
       /\ UNCHANGED <<password, passwordResolved>>
    \/ /\ calls' = calls \o <<Call("Exists", "libp2p", <<"y">>, TRUE),
                              Call("Prompt", "Password", <<>>, FALSE)>>
       /\ Return("promptErr")
       /\ UNCHANGED <<password, passwordResolved>>
    \/ \E p \in Typed :
         /\ calls' = calls \o <<Call("Exists", "libp2p", <<"y">>, TRUE),
                                Call("Prompt", "Password", p, TRUE)>>
         /\ password' = p
         /\ passwordResolved' = TRUE
         /\ pc' = "signer" /\ result' = result
    \/ \E p1 \in Typed, p2 \in Typed :
         LET r == terminalPromptCreatePassword(p1, p2) IN
         /\ calls' = calls \o <<Call("Exists", "libp2p", <<"n">>, TRUE),
                                Call("PromptCreate", "Password", r.pw, r.ok)>>
         /\ IF r.ok
              THEN /\ password' = r.pw
                   /\ passwordResolved' = TRUE
                   /\ pc' = "signer" /\ result' = result
              ELSE /\ Return("passwordMismatch")
                   /\ UNCHANGED <<password, passwordResolved>>

\* AcquirePassword looking at the password file before the explicit value
AcquirePassword_FileFirst ==
    /\ pc = "password"
    /\ IF cfg.passwordFile # "" THEN PasswordFromFile
       ELSE IF cfg.password # <<>> THEN
            /\ password' = cfg.password
            /\ passwordResolved' = TRUE
            /\ calls' = calls
            /\ pc' = "signer" /\ result' = result
       ELSE PasswordFromPrompt
    /\ UNCHANGED <<cfg, log, maxRetries, clefArg, slept>>
    /\ UNCHANGED netVars
    /\ UNCHANGED shutVars

(***************************************************************************)
(* configureSigner, lines 306-336: password acquisition.                   *)
(***************************************************************************)
AcquirePassword ==
    /\ pc = "password"
    /\ IF cfg.password # <<>> THEN
            /\ password' = cfg.password
            /\ passwordResolved' = TRUE
            /\ calls' = calls
            /\ pc' = "signer" /\ result' = result
       ELSE IF cfg.passwordFile # "" THEN PasswordFromFile
       ELSE PasswordFromPrompt
    /\ UNCHANGED <<cfg, log, maxRetries, clefArg, slept>>
    /\ UNCHANGED netVars
    /\ UNCHANGED shutVars

(***************************************************************************)
(* configureSigner, lines 374-382: the local signer from the "sana" key.   *)
(***************************************************************************)
LocalSigner ==
    /\ pc = "signer"
    /\ ~cfg.clefEnable
    /\ \E ok \in BOOLEAN :
         /\ calls' = Append(calls, Call("Key", "sana", password, ok))
         /\ IF ok THEN pc' = "libp2p" /\ result' = result
                  ELSE Return("sanaKeyErr")
    /\ log' = Append(log, "clef is not enabled")
    /\ UNCHANGED cfg
    /\ UNCHANGED provVars
    /\ UNCHANGED netVars
    /\ UNCHANGED shutVars

(***************************************************************************)
(* configureSigner, lines 338-347: the remote signer's endpoint and the    *)
(* call of waitForClef with a budget of 5 retries.                         *)
(***************************************************************************)
ClefBegin ==
    /\ pc = "signer"
    /\ cfg.clefEnable
    /\ \/ \* endpoint is empty and clef.DefaultIpcPath fails
          /\ Return("ipcPathErr")
          /\ UNCHANGED <<maxRetries, clefArg>>
       \/ /\ maxRetries' = ClefRetries
          /\ clefArg' = ClefRetries
          /\ pc' = "clef_attempt" /\ result' = result
    /\ UNCHANGED <<cfg, password, passwordResolved, calls, log, slept>>
    /\ UNCHANGED netVars
    /\ UNCHANGED shutVars

\* ClefAttempt giving up one retry early (the budget is decremented before
\* it is compared with 1)
ClefAttempt_ShortBudget ==
    /\ pc = "clef_attempt"
    /\ \E ok \in BOOLEAN :
         /\ calls' = Append(calls, Call("NewExternalSigner", "", <<>>, ok))
         /\ IF ok THEN
                 pc' = "clef_ok" /\ UNCHANGED <<maxRetries, log>>
            ELSE IF maxRetries <= 2 THEN
                 pc' = "clef_fail" /\ UNCHANGED <<maxRetries, log>>
            ELSE /\ maxRetries' = maxRetries - 1
                 /\ log' = Append(log, "failing to connect to clef signer")
                 /\ pc' = "clef_sleep"
    /\ UNCHANGED <<cfg, result, password, passwordResolved, clefArg, slept>>
    /\ UNCHANGED netVars
    /\ UNCHANGED shutVars

\* ClefAttempt with the budget counting attempts instead of retries
ClefAttempt_CountsAttempts ==
    /\ pc = "clef_attempt"
    /\ \E ok \in BOOLEAN :
         /\ calls' = Append(calls, Call("NewExternalSigner", "", <<>>, ok))
         /\ IF ok THEN
                 pc' = "clef_ok" /\ UNCHANGED <<maxRetries, log>>
            ELSE IF maxRetries <= 1 THEN
                 pc' = "clef_fail" /\ UNCHANGED <<maxRetries, log>>
            ELSE /\ maxRetries' = maxRetries - 1
                 /\ log' = Append(log, "failing to connect to clef signer")
                 /\ pc' = "clef_sleep"
    /\ UNCHANGED <<cfg, result, password, passwordResolved, clefArg, slept>>
    /\ UNCHANGED netVars
    /\ UNCHANGED shutVars

(***************************************************************************)
(* waitForClef, lines 282-292: one pass of the loop up to the sleep.       *)
(***************************************************************************)
ClefAttempt ==
    /\ pc = "clef_attempt"
    /\ \E ok \in BOOLEAN :
         /\ calls' = Append(calls, Call("NewExternalSigner", "", <<>>, ok))
         /\ IF ok THEN
                 pc' = "clef_ok" /\ UNCHANGED <<maxRetries, log>>
            ELSE IF maxRetries = 0 THEN
                 pc' = "clef_fail" /\ UNCHANGED <<maxRetries, log>>
            ELSE /\ maxRetries' = maxRetries - 1
                 /\ log' = Append(log, "failing to connect to clef signer")
                 /\ pc' = "clef_sleep"
    /\ UNCHANGED <<cfg, result, password, passwordResolved, clefArg, slept>>
    /\ UNCHANGED netVars
    /\ UNCHANGED shutVars

\* ClefSleep with a backoff that grows with the number of attempts
ClefSleep_GrowingBackoff ==
    /\ pc = "clef_sleep"
    /\ calls' = Append(calls, Call("Sleep", "", <<>>, TRUE))
    /\ slept' = slept + ClefBackoff * NumCalls("NewExternalSigner")
    /\ pc' = "clef_attempt"
    /\ UNCHANGED <<cfg, result, log, password, passwordResolved, maxRetries, clefArg>>
    /\ UNCHANGED netVars
    /\ UNCHANGED shutVars

\* waitForClef, line 293: time.Sleep(5 * time.Second), then the next pass
ClefSleep ==
    /\ pc = "clef_sleep"
    /\ calls' = Append(calls, Call("Sleep", "", <<>>, TRUE))
    /\ slept' = slept + ClefBackoff
    /\ pc' = "clef_attempt"
    /\ UNCHANGED <<cfg, result, log, password, passwordResolved, maxRetries, clefArg>>
    /\ UNCHANGED netVars
    /\ UNCHANGED shutVars

\* configureSigner, lines 348-350 and RunE, lines 110-112
ClefFailed ==
    /\ pc = "clef_fail"
    /\ Return("clefConnectErr")
    /\ UNCHANGED <<cfg, calls, log>>
    /\ UNCHANGED provVars
    /\ UNCHANGED netVars
    /\ UNCHANGED shutVars

(***************************************************************************)
(* configureSigner, lines 352-373: rpc.Dial, clef.NewSigner and the        *)
(* signer's public key.                                                    *)
(***************************************************************************)
ClefSigner ==
    /\ pc = "clef_ok"
    /\ \/ /\ calls' = Append(calls, Call("Dial", "", <<>>, FALSE))
          /\ Return("dialErr")
       \/ /\ calls' = calls \o <<Call("Dial", "", <<>>, TRUE),
                                 Call("NewSigner", "", <<>>, FALSE)>>
          /\ Return("newSignerErr")
       \/ /\ calls' = calls \o <<Call("Dial", "", <<>>, TRUE),
                                 Call("NewSigner", "", <<>>, TRUE),
                                 Call("PublicKey", "", <<>>, FALSE)>>
          /\ Return("publicKeyErr")
       \/ /\ calls' = calls \o <<Call("Dial", "", <<>>, TRUE),
                                 Call("NewSigner", "", <<>>, TRUE),
                                 Call("PublicKey", "", <<>>, TRUE)>>
          /\ pc' = "libp2p" /\ result' = result
    /\ UNCHANGED <<cfg, log>>
    /\ UNCHANGED provVars
    /\ UNCHANGED netVars
    /\ UNCHANGED shutVars

\* DeriveLibp2p going on to the pss key when the libp2p key has failed
DeriveLibp2p_IgnoresError ==
    /\ pc = "libp2p"
    /\ \E ok \in BOOLEAN, created \in BOOLEAN :
         /\ calls' = Append(calls, Call("Key", "libp2p", password, ok))
         /\ log' = log \o <<"sana public key",
                             IF created THEN "new libp2p key created"
                                        ELSE "using existing libp2p key">>
         /\ pc' = "pss" /\ result' = result
    /\ UNCHANGED cfg
    /\ UNCHANGED provVars
    /\ UNCHANGED netVars
    /\ UNCHANGED shutVars

(***************************************************************************)
(* configureSigner, lines 384-394: the account public key line and the     *)
(* libp2p key.                                                             *)
(***************************************************************************)
DeriveLibp2p ==
    /\ pc = "libp2p"
    /\ \/ /\ calls' = Append(calls, Call("Key", "libp2p", password, FALSE))
          /\ log' = Append(log, "sana public key")
          /\ Return("libp2pKeyErr")
       \/ \E created \in BOOLEAN :
            /\ calls' = Append(calls, Call("Key", "libp2p", password, TRUE))
            /\ log' = log \o <<"sana public key",
                                IF created THEN "new libp2p key created"
                                           ELSE "using existing libp2p key">>
            /\ pc' = "pss" /\ result' = result
    /\ UNCHANGED cfg
    /\ UNCHANGED provVars
    /\ UNCHANGED netVars
    /\ UNCHANGED shutVars

\* DerivePss without the line of start.go:406
DerivePss_NoPublicKeyLine ==
    /\ pc = "pss"
    /\ \/ /\ calls' = Append(calls, Call("Key", "pss", password, FALSE))
          /\ log' = log
          /\ Return("pssKeyErr")
       \/ \E created \in BOOLEAN :
            /\ calls' = Append(calls, Call("Key", "pss", password, TRUE))
            /\ log' = Append(log, IF created THEN "new pss key created"
                                             ELSE "using existing pss key")
            /\ pc' = "address" /\ result' = result
    /\ UNCHANGED cfg
    /\ UNCHANGED provVars
    /\ UNCHANGED netVars
    /\ UNCHANGED shutVars

\* configureSigner, lines 396-406: the pss key and its public key line
DerivePss ==
    /\ pc = "pss"
    /\ \/ /\ calls' = Append(calls, Call("Key", "pss", password, FALSE))
          /\ log' = log
          /\ Return("pssKeyErr")
       \/ \E created \in BOOLEAN :
            /\ calls' = Append(calls, Call("Key", "pss", password, TRUE))
            /\ log' = log \o <<IF created THEN "new pss key created"
                                           ELSE "using existing pss key",
                                "pss public key">>
            /\ pc' = "address" /\ result' = result
    /\ UNCHANGED cfg
    /\ UNCHANGED provVars
    /\ UNCHANGED netVars
    /\ UNCHANGED shutVars

\* configureSigner, lines 408-420: the signer's address and its line
QueryAddress ==
    /\ pc = "address"
    /\ \E ok \in BOOLEAN :
         /\ calls' = Append(calls, Call("EthereumAddress", "", <<>>, ok))
         /\ IF ok THEN /\ log' = Append(log, "using ethereum address")
                       /\ pc' = "validate" /\ result' = result
                  ELSE /\ log' = log
                       /\ Return("addressErr")
    /\ UNCHANGED cfg
    /\ UNCHANGED provVars
    /\ UNCHANGED netVars
    /\ UNCHANGED shutVars

\* Validate without the check of start.go:119
Validate_NoCheck ==
    /\ pc = "validate"
    /\ log' = Append(log, "version")
    /\ pc' = "construct" /\ result' = result
    /\ UNCHANGED <<cfg, calls>>
    /\ UNCHANGED provVars
    /\ UNCHANGED netVars
    /\ UNCHANGED shutVars

(***************************************************************************)
(* RunE, lines 114-121: the version line and the bootnode/full-node check. *)
(***************************************************************************)
Validate ==
    /\ pc = "validate"
    /\ log' = Append(log, "version")
    /\ IF cfg.bootNode /\ ~cfg.fullNode
         THEN Return("bootNodeNotFullNode")
         ELSE pc' = "construct" /\ result' = result
    /\ UNCHANGED <<cfg, calls>>
    /\ UNCHANGED provVars
    /\ UNCHANGED netVars
    /\ UNCHANGED shutVars

\* RunE, lines 123-127: the options and the profile of the network id
GetNetworkConfig ==
    /\ pc = "construct"
    /\ networkConfig' = getConfigByNetworkID(netIn.networkID, netIn.blockTime)
    /\ pc' = "overrides"
    /\ UNCHANGED <<cfg, result, calls, log, netIn>>
    /\ UNCHANGED provVars
    /\ UNCHANGED shutVars

\* ApplyOverrides taking the caller's boot nodes only when the list is not empty
ApplyOverrides_NonEmptyOnly ==
    /\ pc = "overrides"
    /\ networkConfig' =
         [networkConfig EXCEPT
            !.bootNodes = IF netIn.bootnodesSet /\ netIn.bootnodes # <<>>
                            THEN netIn.bootnodes ELSE @,
            !.blockTime = IF netIn.blockTimeSet /\ netIn.blockTime # 0
                            THEN Uint64(netIn.blockTime) ELSE @]
    /\ pc' = "newant"
    /\ UNCHANGED <<cfg, result, calls, log, netIn>>
    /\ UNCHANGED provVars
    /\ UNCHANGED shutVars

\* RunE, lines 129-135: the boot nodes and block time the caller has set
ApplyOverrides ==
    /\ pc = "overrides"
    /\ networkConfig' =
         [networkConfig EXCEPT
            !.bootNodes = IF netIn.bootnodesSet THEN netIn.bootnodes ELSE @,
            !.blockTime = IF netIn.blockTimeSet /\ netIn.blockTime # 0
                            THEN Uint64(netIn.blockTime) ELSE @]
    /\ pc' = "newant"
    /\ UNCHANGED <<cfg, result, calls, log, netIn>>
    /\ UNCHANGED provVars
    /\ UNCHANGED shutVars

(***************************************************************************)
(* RunE, lines 137-225: node.NewAnt with networkConfig in its options,     *)
(* then the interrupt channel, the signal registration and the program     *)
(* value.  In foreground mode the goroutine goes on to p.start() (line     *)
(* 242) and blocks on the channel.                                         *)
(***************************************************************************)
ConstructNode ==
    /\ pc = "newant"
    /\ \E ok \in BOOLEAN :
         /\ calls' = Append(calls, Call("NewAnt", "", <<>>, ok))
         /\ IF ok THEN /\ pc' = IF cfg.isWindowsService THEN "service" ELSE "start_wait"
                       /\ result' = result
                  ELSE Return("newAntErr")
    /\ UNCHANGED <<cfg, log>>
    /\ UNCHANGED provVars
    /\ UNCHANGED netVars
    /\ UNCHANGED shutVars

\* signal.Notify has been called and RunE has not returned
Registered ==
    pc \in {"service", "start_wait", "start_debug", "start_info", "svc_running",
            "stop", "stop_select", "stop_debug", "stop_return", "svc_stopped"}

\* DeliverSignal with an unbuffered channel: no receiver is counted as ready
DeliverSignal_Unbuffered ==
    /\ Registered
    /\ signalsSent < MaxSignals
    /\ signalsSent' = signalsSent + 1
    /\ interruptChannel' = interruptChannel
    /\ UNCHANGED <<cfg, pc, result, calls, log, startPc, shut, shutErr, elapsed, stopWake>>
    /\ UNCHANGED provVars
    /\ UNCHANGED netVars

(***************************************************************************)
(* The OS delivers SIGINT or SIGTERM.  The runtime's send on the channel   *)
(* registered with signal.Notify does not block: a signal that finds the   *)
(* buffer full is discarded.                                               *)
(***************************************************************************)
DeliverSignal ==
    /\ Registered
    /\ signalsSent < MaxSignals
    /\ signalsSent' = signalsSent + 1
    /\ interruptChannel' = IF Len(interruptChannel) < ChannelCapacity
                             THEN Append(interruptChannel, signalsSent + 1)
                             ELSE interruptChannel
    /\ UNCHANGED <<cfg, pc, result, calls, log, startPc, shut, shutErr, elapsed, stopWake>>
    /\ UNCHANGED provVars
    /\ UNCHANGED netVars

(***************************************************************************)
(* RunE, lines 227-239, with program.Start (lines 263-267): service.New    *)
(* and s.Run, which calls Start; Start dispatches "go p.start()".          *)
(***************************************************************************)
ServiceStart ==
    /\ pc = "service"
    /\ \/ Return("serviceNewErr") /\ startPc' = startPc
       \/ Return("serviceRunErr") /\ startPc' = startPc
       \/ pc' = "svc_running" /\ result' = result /\ startPc' = "waiting"
    /\ UNCHANGED <<cfg, calls, log, interruptChannel, signalsSent, shut, shutErr,
                   elapsed, stopWake>>
    /\ UNCHANGED provVars
    /\ UNCHANGED netVars

\* program.Stop, lines 269-272: the service manager asks the service to stop
ServiceStopRequest ==
    /\ pc = "svc_running"
    /\ pc' = "stop"
    /\ UNCHANGED <<cfg, result, calls, log>>
    /\ UNCHANGED provVars
    /\ UNCHANGED netVars
    /\ UNCHANGED shutVars

(***************************************************************************)
(* p.start, lines 196-202.  In foreground mode it runs on RunE's           *)
(* goroutine, which continues with p.stop(); in service mode it is the     *)
(* goroutine of program.Start and ends after its last line.  Its three     *)
(* statements are separate steps: other goroutines run between them.       *)
(***************************************************************************)
\* line 198: the receive from the interrupt channel
StartReceive ==
    /\ interruptChannel # <<>>
    /\ \/ /\ pc = "start_wait"
          /\ pc' = "start_debug"
          /\ startPc' = startPc
       \/ /\ startPc = "waiting"
          /\ startPc' = "debug"
          /\ pc' = pc
    /\ interruptChannel' = Tail(interruptChannel)
    /\ UNCHANGED <<cfg, result, calls, log, signalsSent, shut, shutErr, elapsed, stopWake>>
    /\ UNCHANGED provVars
    /\ UNCHANGED netVars

\* line 200: logger.Debugf("received signal: %v", sig)
StartLogSignal ==
    /\ \/ /\ pc = "start_debug"
          /\ pc' = "start_info"
          /\ startPc' = startPc
       \/ /\ startPc = "debug"
          /\ startPc' = "info"
          /\ pc' = pc
    /\ log' = Append(log, "received signal")
    /\ UNCHANGED <<cfg, result, calls, interruptChannel, signalsSent, shut, shutErr,
                   elapsed, stopWake>>
    /\ UNCHANGED provVars
    /\ UNCHANGED netVars

\* line 201: logger.Info("shutting down"), and the return of p.start
StartLogShutdown ==
    /\ \/ /\ pc = "start_info"
          /\ pc' = "stop"
          /\ startPc' = startPc
       \/ /\ startPc = "info"
          /\ startPc' = "done"
          /\ pc' = pc
    /\ log' = Append(log, "shutting down")
    /\ UNCHANGED <<cfg, result, calls, interruptChannel, signalsSent, shut, shutErr,
                   elapsed, stopWake>>
    /\ UNCHANGED provVars
    /\ UNCHANGED netVars

\* p.stop, lines 205-215: make(done) and the go statement
StopBegin ==
    /\ pc = "stop"
    /\ shut' = "spawned"
    /\ pc' = "stop_select"
    /\ UNCHANGED <<cfg, result, calls, log, interruptChannel, signalsSent, startPc,
                   shutErr, elapsed, stopWake>>
    /\ UNCHANGED provVars
    /\ UNCHANGED netVars

\* the spawned goroutine, lines 209-212: the context and the call a.Shutdown(ctx)
ShutdownCall ==
    /\ shut = "spawned"
    /\ shut' = "calling"
    /\ elapsed' = 0
    /\ calls' = Append(calls, Call("Shutdown", "", <<>>, TRUE))
    /\ UNCHANGED <<cfg, pc, result, log, interruptChannel, signalsSent, startPc,
                   shutErr, stopWake>>
    /\ UNCHANGED provVars
    /\ UNCHANGED netVars

\* time passes while the context of line 209 is live, up to its deadline
Tick ==
    /\ shut = "calling"
    /\ elapsed < ShutdownDeadline
    /\ elapsed' = IF elapsed + TickStep < ShutdownDeadline THEN elapsed + TickStep
                                                          ELSE ShutdownDeadline
    /\ UNCHANGED <<cfg, pc, result, calls, log, interruptChannel, signalsSent, startPc,
                   shut, shutErr, stopWake>>
    /\ UNCHANGED provVars
    /\ UNCHANGED netVars

(***************************************************************************)
(* The spawned goroutine, lines 212-213: a.Shutdown returns and its error, *)
(* if any, is logged.  When Shutdown returns is up to the node.  The       *)
(* deferred calls are still to run: done is open.                          *)
(***************************************************************************)
ShutdownReturn ==
    /\ shut = "calling"
    /\ \E err \in {"nil", "shutdownErr"} :
         /\ shutErr' = err
         /\ log' = IF err # "nil" THEN Append(log, "shutdown: err") ELSE log
    /\ shut' = "deferred"
    /\ UNCHANGED <<cfg, pc, result, calls, interruptChannel, signalsSent, startPc,
                   elapsed, stopWake>>
    /\ UNCHANGED provVars
    /\ UNCHANGED netVars

\* the goroutine's deferred calls, lines 210 and 207: cancel(), then close(done)
ShutdownClose ==
    /\ shut = "deferred"
    /\ shut' = "done"
    /\ UNCHANGED <<cfg, pc, result, calls, log, interruptChannel, signalsSent, startPc,
                   shutErr, elapsed, stopWake>>
    /\ UNCHANGED provVars
    /\ UNCHANGED netVars

\* StopSelect without the interrupt case: stop waits for done only
StopSelect_DoneOnly ==
    /\ pc = "stop_select"
    /\ shut = "done"
    /\ stopWake' = "done"
    /\ pc' = "stop_return"
    /\ UNCHANGED <<interruptChannel, log>>
    /\ UNCHANGED <<cfg, result, calls, signalsSent, startPc, shut,shutErr, elapsed>>
    /\ UNCHANGED provVars
    /\ UNCHANGED netVars

\* StopSelect cancelling the shutdown context when the interrupt case fires
StopSelect_CancelsShutdown ==
    /\ pc = "stop_select"
    /\ \/ /\ interruptChannel # <<>>
          /\ interruptChannel' = Tail(interruptChannel)
          /\ stopWake' = "signal"
          /\ pc' = "stop_debug"
          /\ shut' = "done"
       \/ /\ shut = "done"
          /\ stopWake' = "done"
          /\ pc' = "stop_return"
          /\ UNCHANGED <<interruptChannel, shut>>
    /\ log' = log
    /\ UNCHANGED <<cfg, result, calls, signalsSent, startPc, shutErr, elapsed>>
    /\ UNCHANGED provVars
    /\ UNCHANGED netVars

\* StopSelect with a third case for the deadline of the shutdown context
StopSelect_DeadlineCase ==
    /\ pc = "stop_select"
    /\ \/ /\ interruptChannel # <<>>
          /\ interruptChannel' = Tail(interruptChannel)
          /\ stopWake' = "signal"
          /\ pc' = "stop_debug"
       \/ /\ shut = "done"
          /\ stopWake' = "done"
          /\ pc' = "stop_return"
          /\ UNCHANGED interruptChannel
       \/ /\ shut = "calling" /\ elapsed = ShutdownDeadline
          /\ stopWake' = "deadline"
          /\ pc' = "stop_return"
          /\ UNCHANGED interruptChannel
    /\ log' = log
    /\ UNCHANGED <<cfg, result, calls, signalsSent, startPc, shut,shutErr, elapsed>>
    /\ UNCHANGED provVars
    /\ UNCHANGED netVars

(***************************************************************************)
(* p.stop, lines 219-224, statement by statement: other goroutines and the *)
(* delivery of signals run between them.                                   *)
(***************************************************************************)
\* lines 219-222: the select takes a signal out of the channel, or sees done closed
StopSelect ==
    /\ pc = "stop_select"
    /\ \/ /\ interruptChannel # <<>>
          /\ interruptChannel' = Tail(interruptChannel)
          /\ stopWake' = "signal"
          /\ pc' = "stop_debug"
       \/ /\ shut = "done"
          /\ stopWake' = "done"
          /\ pc' = "stop_return"
          /\ UNCHANGED interruptChannel
    /\ log' = log
    /\ UNCHANGED <<cfg, result, calls, signalsSent, startPc, shut,shutErr, elapsed>>
    /\ UNCHANGED provVars
    /\ UNCHANGED netVars

\* line 221: logger.Debugf("received signal: %v", sig)
StopLogSignal ==
    /\ pc = "stop_debug"
    /\ log' = Append(log, "received signal")
    /\ pc' = "stop_return"
    /\ UNCHANGED <<cfg, result, calls, interruptChannel, signalsSent, startPc, shut,
                   shutErr, elapsed, stopWake>>
    /\ UNCHANGED provVars
    /\ UNCHANGED netVars

\* StopReturn handing the error of a.Shutdown to the caller
StopReturn_EscalatesError ==
    /\ pc = "stop_return"
    /\ IF cfg.isWindowsService
         THEN pc' = "svc_stopped" /\ result' = result
         ELSE Return(IF stopWake = "done" THEN shutErr ELSE "nil")
    /\ UNCHANGED <<cfg, calls, log>>
    /\ UNCHANGED provVars
    /\ UNCHANGED netVars
    /\ UNCHANGED shutVars

(***************************************************************************)
(* p.stop returns, line 224.  In foreground mode RunE then returns nil     *)
(* (line 246); in service mode program.Stop returns to the service         *)
(* manager (line 271).                                                     *)
(***************************************************************************)
StopReturn ==
    /\ pc = "stop_return"
    /\ IF cfg.isWindowsService
         THEN pc' = "svc_stopped" /\ result' = result
         ELSE Return("nil")
    /\ UNCHANGED <<cfg, calls, log>>
    /\ UNCHANGED provVars
    /\ UNCHANGED netVars
    /\ UNCHANGED shutVars

\* RunE, lines 237-246: s.Run returns after program.Stop has returned
ServiceRunReturn ==
    /\ pc = "svc_stopped"
    /\ \/ Return("nil")
       \/ Return("serviceRunErr")
    /\ UNCHANGED <<cfg, calls, log>>
    /\ UNCHANGED provVars
    /\ UNCHANGED netVars
    /\ UNCHANGED shutVars

(***************************************************************************)
(* The start command.                                                      *)
(***************************************************************************)
Next ==
    \/ Prelude
    \/ SelectKeystore
    \/ AcquirePassword
    \/ LocalSigner
    \/ ClefBegin
    \/ ClefAttempt
    \/ ClefSleep
    \/ ClefFailed
    \/ ClefSigner
    \/ DeriveLibp2p
    \/ DerivePss
    \/ QueryAddress
    \/ Validate
    \/ GetNetworkConfig
    \/ ApplyOverrides
    \/ ConstructNode
    \/ DeliverSignal
    \/ ServiceStart
    \/ ServiceStopRequest
    \/ StartReceive
    \/ StartLogSignal
    \/ StartLogShutdown
    \/ StopBegin
    \/ ShutdownCall
    \/ Tick
    \/ ShutdownReturn
    \/ ShutdownClose
    \/ StopSelect
    \/ StopLogSignal
    \/ StopReturn
    \/ ServiceRunReturn

Spec == Init /\ [][Next]_vars

(***************************************************************************)
(* Scheduling: a goroutine that can take its next step takes it, and time  *)
(* advances.  Nothing obliges the OS to deliver a signal, the service      *)
(* manager to ask for a stop, or the node's Shutdown to return; and once   *)
(* RunE has returned nothing obliges the goroutines it leaves behind, the  *)
(* one of program.Start and the one of the shutdown, to run any further.   *)
(***************************************************************************)
FairSpec ==
    /\ Spec
    /\ WF_vars(pc # "returned" /\ StartReceive)
    /\ WF_vars(pc # "returned" /\ StartLogSignal)
    /\ WF_vars(pc # "returned" /\ StartLogShutdown)
    /\ WF_vars(StopBegin)
    /\ WF_vars(StopSelect)
    /\ WF_vars(StopLogSignal)
    /\ WF_vars(StopReturn)
    /\ WF_vars(pc # "returned" /\ ShutdownCall)
    /\ WF_vars(pc # "returned" /\ Tick)
    /\ WF_vars(pc # "returned" /\ ShutdownClose)

(***************************************************************************)
(* waitForClef on its own, for every retry budget up to MaxRetriesBound.   *)
(***************************************************************************)
InitWait ==
    /\ cfg = [dataDir |-> "datadir",
              password |-> <<"p">>, passwordFile |-> "", clefEnable |-> TRUE,
              bootNode |-> FALSE, fullNode |-> TRUE, isWindowsService |-> FALSE]
    /\ pc = "clef_attempt"
    /\ result = "none"
    /\ password = <<"p">>
    /\ passwordResolved = TRUE
    /\ calls = <<>>
    /\ log = <<>>
    /\ clefArg \in 0..MaxRetriesBound
    /\ maxRetries = clefArg
    /\ interruptChannel = <<>>
    /\ signalsSent = 0
    /\ startPc = "idle"
    /\ shut = "idle"
    /\ shutErr = "nil"
    /\ elapsed = 0
    /\ stopWake = "none"
    /\ slept = 0
    /\ netIn \in MainNetInputs
    /\ networkConfig = ZeroNetworkConfig

NextWait ==
    \/ ClefAttempt
    \/ ClefSleep

WaitSpec == InitWait /\ [][NextWait]_vars

(***************************************************************************)
(* The network profile on its own: RunE from line 123, after a local       *)
(* provisioning has succeeded, for every combination of the options.       *)
(***************************************************************************)
InitNet ==
    /\ cfg = [dataDir |-> "datadir",
              password |-> <<"p">>, passwordFile |-> "", clefEnable |-> FALSE,
              bootNode |-> FALSE, fullNode |-> TRUE, isWindowsService |-> FALSE]
    /\ pc = "construct"
    /\ result = "none"
    /\ password = <<"p">>
    /\ passwordResolved = TRUE
    /\ calls = <<Call("Key", "sana", <<"p">>, TRUE), Call("Key", "libp2p", <<"p">>, TRUE),
                 Call("Key", "pss", <<"p">>, TRUE), Call("EthereumAddress", "", <<>>, TRUE)>>
    /\ log = <<"clef is not enabled", "sana public key", "using existing libp2p key",
               "using existing pss key", "pss public key", "using ethereum address",
               "version">>
    /\ maxRetries = 0
    /\ clefArg = 0
    /\ interruptChannel = <<>>
    /\ signalsSent = 0
    /\ startPc = "idle"
    /\ shut = "idle"
    /\ shutErr = "nil"
    /\ elapsed = 0
    /\ stopWake = "none"
    /\ slept = 0
    /\ netIn \in NetInputs
    /\ networkConfig = ZeroNetworkConfig

NextNet ==
    \/ GetNetworkConfig
    \/ ApplyOverrides
    \/ ConstructNode

NetSpec == InitNet /\ [][NextNet]_vars

(***************************************************************************)
(* Vocabulary of the properties.                                           *)
(***************************************************************************)
Attempts == SelectSeq(calls, LAMBDA c : c.op = "NewExternalSigner")
AllFailed(k) == \A i \in 1..k : ~Attempts[i].ok

OkCall(op, name) == \E i \in 1..Len(calls) :
                        calls[i].op = op /\ calls[i].name = name /\ calls[i].ok

PasswordOps == {"ReadFile", "Exists", "Prompt", "PromptCreate"}
ProvisioningOps == PasswordOps \cup {"Key", "NewExternalSigner", "Dial", "NewSigner",
                                    "PublicKey", "EthereumAddress"}
PasswordErrors == {"readFileErr", "existsErr", "promptErr", "passwordMismatch"}

NodeConstructed == OkCall("NewAnt", "")
ProvisioningSucceeded == OkCall("EthereumAddress", "")
Foreground == ~cfg.isWindowsService

(***************************************************************************)
(* C1: when bootnode mode is on and full-node mode is off, the command     *)
(* fails with the validation error before any provisioning step: at the    *)
(* failure no password has been acquired and no keystore or remote-signer  *)
(* call has been made.                                                     *)
(***************************************************************************)
C1_ValidationBeforeProvisioning ==
    (pc = "returned" /\ result = "bootNodeNotFullNode") =>
        /\ ~passwordResolved
        /\ \A i \in 1..Len(calls) : calls[i].op \notin ProvisioningOps

(***************************************************************************)
(* C2 as claimed: with a budget N >= 1 and an endpoint that never          *)
(* succeeds, waitForClef fails after exactly N connection attempts.        *)
(***************************************************************************)
C2_FailsAfterNAttempts ==
    (clefArg >= 1 /\ pc = "clef_fail") => Len(Attempts) = clefArg

(***************************************************************************)
(* C2 as amended: with a budget N >= 1 and an endpoint that never          *)
(* succeeds, waitForClef fails after exactly N + 1 connection attempts     *)
(* (the first attempt and N retries), and not before.                      *)
(***************************************************************************)
C2_FailsAfterNPlusOneAttempts ==
    clefArg >= 1 =>
        /\ pc = "clef_fail" => Len(Attempts) = clefArg + 1 /\ AllFailed(clefArg + 1)
        /\ (AllFailed(Len(Attempts)) /\ Len(Attempts) <= clefArg) =>
               pc \in {"clef_attempt", "clef_sleep"}

C2_Witness ==
    pc = "clef_fail" /\ clefArg = 3 /\ Len(Attempts) = 4

(***************************************************************************)
(* C3: with a budget N >= 1 and an endpoint whose attempts 1..N-1 fail and *)
(* whose N-th attempt succeeds, waitForClef reaches the N-th attempt,      *)
(* returns the signer after exactly N attempts and attempts nothing more.  *)
(***************************************************************************)
C3_SucceedsOnNthAttempt ==
    clefArg >= 1 =>
        /\ (Len(Attempts) >= clefArg /\ AllFailed(clefArg - 1) /\ Attempts[clefArg].ok) =>
               pc = "clef_ok" /\ Len(Attempts) = clefArg
        /\ (Len(Attempts) < clefArg /\ AllFailed(Len(Attempts))) =>
               pc \in {"clef_attempt", "clef_sleep"}

C3_Witness ==
    /\ pc = "clef_ok" /\ clefArg = 3 /\ Len(Attempts) = 3
    /\ AllFailed(2) /\ Attempts[3].ok

(***************************************************************************)
(* C4: in foreground mode, once stop has started the shutdown and waits in *)
(* its select, a second interrupt that arrives before Shutdown has         *)
(* completed makes stop return and the command exit with nil, whether or   *)
(* not Shutdown ever returns.                                              *)
(***************************************************************************)
C4_SecondInterruptForcesExit ==
    (Foreground /\ pc = "stop_select" /\ interruptChannel # <<>> /\ shut # "done")
        ~> (pc = "returned" /\ result = "nil")

C4_Witness ==
    /\ Foreground /\ pc = "returned" /\ result = "nil"
    /\ stopWake = "signal" /\ shut = "calling"

(***************************************************************************)
(* C5 as claimed: once the node has been constructed the command always    *)
(* finishes with nil.                                                      *)
(***************************************************************************)
C5_AlwaysNilAfterConstruction ==
    (NodeConstructed /\ pc = "returned") => result = "nil"

(***************************************************************************)
(* C5 as amended: once the node has been constructed, the error of the     *)
(* node's Shutdown never becomes the command's result, on the graceful     *)
(* and on the forced path; in foreground mode the command finishes with    *)
(* nil, in service mode with nil or with the error of service.New or       *)
(* s.Run.                                                                  *)
(***************************************************************************)
C5_ShutdownErrorSwallowed ==
    (NodeConstructed /\ pc = "returned") =>
        /\ result # "shutdownErr"
        /\ Foreground => result = "nil"
        /\ ~Foreground => result \in {"nil", "serviceNewErr", "serviceRunErr"}

C5_Witness ==
    /\ NodeConstructed /\ pc = "returned" /\ result = "nil"
    /\ Foreground /\ stopWake = "done" /\ shutErr = "shutdownErr"

(***************************************************************************)
(* C6 as claimed: after shutdown has started and with no further           *)
(* interrupt, stop returns once the 15-unit deadline has elapsed even      *)
(* though the node's Shutdown call has not returned.  (An interrupt makes  *)
(* stop return as well, so the deadline state leads to stop's return in    *)
(* every run if it does so in the runs without one.)                       *)
(***************************************************************************)
C6_DeadlineUnblocksStop ==
    (pc = "stop_select" /\ shut = "calling" /\ elapsed = ShutdownDeadline)
        ~> (pc # "stop_select")

(***************************************************************************)
(* C6 as amended: after shutdown has started, as long as stop's select     *)
(* receives no interrupt, stop returns only when the node's Shutdown call  *)
(* has returned and done is closed: whenever stop has left its select it   *)
(* has either taken an interrupt or seen done closed, and with no          *)
(* interrupt to take and done open the select cannot proceed, the          *)
(* 15-unit deadline reached or not.                                        *)
(***************************************************************************)
C6_StopWaitsForShutdownReturn ==
    /\ []((shut # "idle" /\ pc \in {"stop_debug", "stop_return", "svc_stopped", "returned"}) =>
             (stopWake = "signal" \/ (stopWake = "done" /\ shut = "done")))
    /\ []((pc = "stop_select" /\ interruptChannel = <<>> /\ shut # "done") =>
             ~ENABLED StopSelect)
    /\ [][(pc = "stop_select" /\ pc' # "stop_select" /\ interruptChannel' = interruptChannel)
            => shut = "done"]_vars

C6_Witness ==
    /\ pc = "stop_select" /\ interruptChannel = <<>>
    /\ shut = "calling" /\ elapsed = ShutdownDeadline
    /\ signalsSent = 1

(***************************************************************************)
(* C7: in foreground and in service mode, every interrupt received while   *)
(* the node is running and no shutdown has started yet is eventually       *)
(* followed by the start of the node's shutdown: stop launches the         *)
(* goroutine that calls the node's Shutdown.  While the node is running    *)
(* the receiver of an interrupt is p.start.                                *)
(***************************************************************************)
C7_InterruptLeadsToShutdown ==
    ((pc = "start_debug" \/ startPc = "debug") /\ shut = "idle") ~> (shut # "idle")

(***************************************************************************)
(* C8 as claimed: on every successful provisioning run the address line    *)
(* is logged first, then the account public key line, then the messaging   *)
(* public key line.                                                        *)
(***************************************************************************)
C8_AddressLineFirst ==
    ProvisioningSucceeded =>
        \E a \in LogIdx("using ethereum address"), k \in LogIdx("sana public key"),
           m \in LogIdx("pss public key") : a < k /\ k < m

(***************************************************************************)
(* C8 as amended: on every successful provisioning run (local or remote)   *)
(* each of the three lines is logged once, in the order account public     *)
(* key, messaging public key, address.                                     *)
(***************************************************************************)
C8_PublicKeysThenAddress ==
    ProvisioningSucceeded =>
        /\ Cardinality(LogIdx("sana public key")) = 1
        /\ Cardinality(LogIdx("pss public key")) = 1
        /\ Cardinality(LogIdx("using ethereum address")) = 1
        /\ \E a \in LogIdx("using ethereum address"), k \in LogIdx("sana public key"),
              m \in LogIdx("pss public key") : k < m /\ m < a

C8_Witness ==
    pc = "validate" /\ ProvisioningSucceeded /\ cfg.clefEnable

(***************************************************************************)
(* C9: node.NewAnt is called at most once, and only after the password     *)
(* has been acquired, the signer provisioned, the libp2p and pss keys      *)
(* derived, the signer's address queried and the bootnode/full-node check  *)
(* passed; a failure of any of these makes the command return an error     *)
(* with neither NewAnt nor Shutdown ever called.                           *)
(***************************************************************************)
C9_NodeOnlyAfterProvisioning ==
    /\ NumCalls("NewAnt") <= 1
    /\ \A i \in CallIdx("NewAnt") :
         /\ passwordResolved
         /\ ~(cfg.bootNode /\ ~cfg.fullNode)
         /\ LogIdx("version") # {}
         /\ \A j \in 1..(i - 1) : calls[j].op # "NewExternalSigner" => calls[j].ok
         /\ IF cfg.clefEnable
              THEN \E a \in IdxOf(Call("NewExternalSigner", "", <<>>, TRUE)),
                      b \in IdxOf(Call("NewSigner", "", <<>>, TRUE)),
                      c \in IdxOf(Call("PublicKey", "", <<>>, TRUE)) :
                      a < b /\ b < c /\ c < i
              ELSE \E a \in IdxOf(Call("Key", "sana", password, TRUE)) : a < i
         /\ \E a \in IdxOf(Call("Key", "libp2p", password, TRUE)),
               b \in IdxOf(Call("Key", "pss", password, TRUE)),
               c \in IdxOf(Call("EthereumAddress", "", <<>>, TRUE)) :
               a < b /\ b < c /\ c < i
    /\ \A i \in CallIdx("Shutdown") :
         \E j \in IdxOf(Call("NewAnt", "", <<>>, TRUE)) : j < i
    /\ (\E i \in 1..Len(calls) : calls[i].op \in ProvisioningOps
                                   /\ calls[i].op # "NewExternalSigner" /\ ~calls[i].ok) =>
          /\ pc = "returned" /\ result \notin {"none", "nil"}
          /\ NumCalls("NewAnt") = 0 /\ NumCalls("Shutdown") = 0
    /\ (pc = "returned" /\ result \in {"clefConnectErr", "ipcPathErr", "bootNodeNotFullNode"}) =>
          NumCalls("NewAnt") = 0 /\ NumCalls("Shutdown") = 0

C9_Witness ==
    /\ NodeConstructed /\ NumCalls("Shutdown") = 1
    /\ cfg.clefEnable /\ cfg.bootNode /\ cfg.fullNode

(***************************************************************************)
(* C10: when password acquisition fails (confirmation mismatch, or an      *)
(* error of a prompt, of the password file read or of the key existence    *)
(* check), configureSigner returns an error and the keystore's             *)
(* load-or-create and the remote-signer connection have not been called.   *)
(***************************************************************************)
C10_PasswordFailureStopsProvisioning ==
    (\E i \in 1..Len(calls) : calls[i].op \in PasswordOps /\ ~calls[i].ok) =>
        /\ pc = "returned" /\ result \in PasswordErrors
        /\ NumCalls("Key") = 0
        /\ NumCalls("NewExternalSigner") = 0
        /\ NumCalls("Dial") = 0

C10_Witness ==
    /\ pc = "returned" /\ result = "passwordMismatch"
    /\ calls[Len(calls)] = Call("PromptCreate", "Password", <<>>, FALSE)

(***************************************************************************)
(* The table of the network profiles as the specification gives it.        *)
(***************************************************************************)
TableBootPeers(id) ==
    IF id \in {1, 100} THEN <<"/dnsaddr/mainnet.ethsana.org">>
    ELSE IF id = 5 THEN <<"/dnsaddr/testnet.ethsana.org">>
    ELSE <<>>

TableChainID(id) ==
    IF id \in {1, 100} THEN 100
    ELSE IF id = 5 THEN 5
    ELSE IF id = 31337 THEN 31337
    ELSE -1

(***************************************************************************)
(* C11: getConfigByNetworkID returns the tabulated profile for every       *)
(* network id: 1 and 100 give the mainnet boot peer and chain id 100, 5    *)
(* the testnet boot peer and chain id 5, 31337 no boot peers and chain id  *)
(* 31337, any other id no boot peers and chain id -1.                      *)
(***************************************************************************)
C11_TabulatedProfile ==
    pc = "overrides" =>
        /\ networkConfig.bootNodes = TableBootPeers(netIn.networkID)
        /\ networkConfig.chainID = TableChainID(netIn.networkID)

C11_Witness ==
    /\ pc = "overrides" /\ netIn.networkID = 7
    /\ networkConfig.bootNodes = <<>> /\ networkConfig.chainID = -1

(***************************************************************************)
(* C12: the profile handed to node.NewAnt has the caller's boot nodes      *)
(* whenever the boot-nodes option is set, an empty list included, and the  *)
(* caller's block time whenever the block-time option is set to a non-zero *)
(* value; otherwise it has the table's boot peers and the default block    *)
(* time in seconds as a duration.  The chain id is always the table's.     *)
(***************************************************************************)
C12_OverridesTakePrecedence ==
    NumCalls("NewAnt") > 0 =>
        /\ networkConfig.bootNodes =
             IF netIn.bootnodesSet THEN netIn.bootnodes
                                   ELSE TableBootPeers(netIn.networkID)
        /\ IF netIn.blockTimeSet /\ netIn.blockTime # 0
             THEN networkConfig.blockTime.hi = 0
                  /\ networkConfig.blockTime.lo = netIn.blockTime
             ELSE networkConfig.blockTime.hi = netIn.blockTime
                  /\ networkConfig.blockTime.lo = 0
        /\ networkConfig.chainID = TableChainID(netIn.networkID)

C12_Witness ==
    /\ NumCalls("NewAnt") = 1
    /\ netIn.networkID = 1 /\ netIn.bootnodesSet /\ netIn.bootnodes = <<>>
    /\ netIn.blockTimeSet /\ netIn.blockTime = 2
    /\ networkConfig.bootNodes = <<>>

(***************************************************************************)
(* C13: in service mode, a signal that is buffered while stop waits in its *)
(* select is taken by stop, which then returns without waiting for the     *)
(* shutdown to complete, in every interleaving with the start goroutine.   *)
(***************************************************************************)
C13_SignalDuringStopEndsStop ==
    [][(cfg.isWindowsService /\ pc = "stop_select" /\ interruptChannel # <<>>
          /\ interruptChannel' = <<>>) => pc' # "stop_select"]_vars

(***************************************************************************)
(* Signals received so far, by start or by stop: those logged and those    *)
(* start or stop has taken and not logged yet.  Signals kept: received or  *)
(* still in the buffer.                                                    *)
(***************************************************************************)
StartHolds == pc = "start_debug" \/ startPc = "debug"
StopHolds == pc = "stop_debug"
Received ==
    Cardinality(LogIdx("received signal")) + (IF StartHolds THEN 1 ELSE 0)
                                           + (IF StopHolds THEN 1 ELSE 0)
Kept == Received + Len(interruptChannel)

(***************************************************************************)
(* C14 as claimed: no delivered signal is ever dropped: every one is       *)
(* received by start, received by stop, or still buffered.                 *)
(***************************************************************************)
C14_NoSignalDropped ==
    Kept = signalsSent

(***************************************************************************)
(* C14 as amended: a delivered signal is dropped exactly when it arrives   *)
(* while the capacity-1 channel already holds a signal that has not been   *)
(* received; every signal that arrives at an empty channel is kept, and a  *)
(* receive by start or by stop never loses one.                            *)
(***************************************************************************)
C14_OnlyOverflowDropped ==
    [][IF signalsSent' = signalsSent + 1
         THEN Kept' = Kept + (IF Len(interruptChannel) < ChannelCapacity THEN 1 ELSE 0)
         ELSE Kept' = Kept]_vars

C14_Witness ==
    /\ signalsSent = 2 /\ Received = 2 /\ interruptChannel = <<>>
    /\ stopWake = "signal"

(***************************************************************************)
(* C16: when stop returns because of a second interrupt it leaves the      *)
(* shutdown goroutine as it is: the step changes neither the goroutine's   *)
(* position, nor the clock of its context, nor what Shutdown returned, and *)
(* afterwards the goroutine can still call Shutdown, the clock still runs  *)
(* up to the 15-unit deadline and Shutdown can still return.               *)
(***************************************************************************)
C16_ForcedExitLeavesShutdownRunning ==
    /\ [][(stopWake # "signal" /\ stopWake' = "signal") =>
            (shut' = shut /\ elapsed' = elapsed /\ shutErr' = shutErr /\ calls' = calls)]_vars
    /\ [](stopWake = "signal" =>
            /\ shut = "spawned" => ENABLED ShutdownCall
            /\ shut = "calling" => ENABLED ShutdownReturn
            /\ shut = "deferred" => ENABLED ShutdownClose
            /\ (shut = "calling" /\ elapsed < ShutdownDeadline) => ENABLED Tick)

C16_Witness ==
    /\ cfg.isWindowsService /\ pc = "returned" /\ stopWake = "signal"
    /\ shut = "calling" /\ elapsed = ShutdownDeadline

(***************************************************************************)
(* The keystore.Key calls of the run, in order.                            *)
(***************************************************************************)
KeyCalls == SelectSeq(calls, LAMBDA c : c.op = "Key")

KeysFollow(expected) ==
    /\ Len(KeyCalls) <= Len(expected)
    /\ \A i \in 1..Len(KeyCalls) : KeyCalls[i].name = expected[i]
    /\ \A i \in 1..(Len(KeyCalls) - 1) : KeyCalls[i].ok
    /\ ProvisioningSucceeded => Len(KeyCalls) = Len(expected) /\ KeyCalls[Len(expected)].ok

(***************************************************************************)
(* C15 as claimed: for the local and the remote signer alike, every run    *)
(* that reaches key derivation calls load-or-create for the account key,   *)
(* then the network-identity key, then the messaging key, and stops at the *)
(* first call that fails.                                                  *)
(***************************************************************************)
C15_AccountKeyFirst ==
    KeysFollow(<<"sana", "libp2p", "pss">>)

(***************************************************************************)
(* C15 as amended: with the local signer load-or-create is called for the  *)
(* account key, then the network-identity key, then the messaging key;     *)
(* with the remote signer the account key is not taken from the keystore   *)
(* and load-or-create is called for the network-identity key, then the     *)
(* messaging key.  In both cases the first failing call is the last one.   *)
(***************************************************************************)
C15_KeysInOrderPerSigner ==
    KeysFollow(IF cfg.clefEnable THEN <<"libp2p", "pss">>
                                 ELSE <<"sana", "libp2p", "pss">>)

C15_Witness ==
    /\ ~cfg.clefEnable /\ pc = "returned" /\ result = "libp2pKeyErr"
    /\ Len(KeyCalls) = 2 /\ KeyCalls[1].ok /\ ~KeyCalls[2].ok

(***************************************************************************)
(* C17: in waitForClef a sleep of 5 units happens between every two        *)
(* consecutive connection attempts and at no other time: none before the   *)
(* first attempt, none after a success, none after the last failure, so a  *)
(* run of k attempts has slept k - 1 times.                                *)
(***************************************************************************)
C17_SleepBetweenAttemptsOnly ==
    /\ \A i \in 1..Len(calls) :
         calls[i].op = IF i % 2 = 1 THEN "NewExternalSigner" ELSE "Sleep"
    /\ \A i \in CallIdx("Sleep") : ~calls[i - 1].ok
    /\ slept = ClefBackoff * NumCalls("Sleep")
    /\ pc \in {"clef_ok", "clef_fail"} => NumCalls("Sleep") = Len(Attempts) - 1
    /\ pc = "clef_sleep" => NumCalls("Sleep") = Len(Attempts) - 1
    /\ pc = "clef_attempt" => NumCalls("Sleep") = Len(Attempts)

C17_Witness ==
    /\ pc = "clef_ok" /\ Len(Attempts) = 3
    /\ NumCalls("Sleep") = 2 /\ slept = 10

(***************************************************************************)
(* C18: the password is the explicit value when that is not empty, and     *)
(* then the password file is not read, the key existence is not checked    *)
(* and nothing is prompted; with an empty explicit value and a password    *)
(* file, the key existence is not checked and nothing is prompted; every   *)
(* keystore.Key call of the run gets the one resolved password.            *)
(***************************************************************************)
C18_PasswordPriority ==
    /\ cfg.password # <<>> =>
          /\ \A i \in 1..Len(calls) : calls[i].op \notin PasswordOps
          /\ passwordResolved => password = cfg.password
    /\ (cfg.password = <<>> /\ cfg.passwordFile # "") =>
          \A i \in 1..Len(calls) : calls[i].op \notin {"Exists", "Prompt", "PromptCreate"}
    /\ \A i \in CallIdx("Key") : passwordResolved /\ calls[i].data = password

C18_Witness ==
    /\ cfg.password = <<"p">> /\ cfg.passwordFile # "" /\ ~cfg.clefEnable
    /\ ProvisioningSucceeded /\ Len(KeyCalls) = 3

(***************************************************************************)
(* The content of the password file when it has been read.                 *)
(***************************************************************************)
FileRead == {calls[i].data : i \in {j \in CallIdx("ReadFile") : calls[j].ok}}

Newlines(n) == [i \in 1..n |-> NL]

(***************************************************************************)
(* C19 as claimed: the password taken from a file is the file content      *)
(* without its trailing newline, leading newlines and everything else      *)
(* being kept.                                                             *)
(***************************************************************************)
C19_OnlyTrailingNewlineRemoved ==
    \A b \in FileRead :
        password = IF b # <<>> /\ b[Len(b)] = NL THEN SubSeq(b, 1, Len(b) - 1) ELSE b

(***************************************************************************)
(* C19 as amended: the password taken from a file is the file content      *)
(* with all its leading and all its trailing newline characters removed;   *)
(* everything between them, interior newlines included, is kept.           *)
(***************************************************************************)
C19_OuterNewlinesRemoved ==
    \A b \in FileRead :
        /\ \E i \in 0..Len(b), j \in 0..Len(b) :
             b = Newlines(i) \o password \o Newlines(j)
        /\ password # <<>> => password[1] # NL /\ password[Len(password)] # NL

C19_Witness ==
    /\ passwordResolved /\ <<NL, "p">> \in FileRead
    /\ password = <<"p">>

(***************************************************************************)
(* C20: the block time handed to node.NewAnt is the caller's block-time    *)
(* value in seconds as a duration, whether the option was set or is only   *)
(* the default: setting a non-zero value gives the same block time as      *)
(* having it as the default.                                               *)
(***************************************************************************)
C20_SameIntervalSetOrDefault ==
    (NumCalls("NewAnt") > 0 /\ netIn.blockTime # 0) =>
        networkConfig.blockTime = DurationSeconds(netIn.blockTime)

====
